---- MODULE Spec2Model ----
(***************************************************************************)
(* Model of the transcription comparison engine of                         *)
(* backend/app/services/transcription_comparer.py: normalisation,          *)
(* similarity, tokenisation, TranscriptionComparerV4Pro.compare with its   *)
(* realignment search and gap filling, and get_detailed_comparison; two   *)
(* interleaved calls of compare on one comparer; and the transcription     *)
(* session routes of backend/app/api/routes/transcriptions.py.             *)
(*                                                                         *)
(* A text is a sequence of one-character strings.  Cursors are 0-based as  *)
(* in the source; TLA+ sequences are 1-based, so words[i] of the source is *)
(* words[i + 1] here.  A float is kept as an exact fraction <<num, den>>.  *)
(***************************************************************************)
EXTENDS Integers, Sequences, FiniteSets, TLC

\* ------------------------------------------------------------------------
\* Bounds of the model and the inputs drawn from them
\* ------------------------------------------------------------------------

\* Longest input text made of any words of Vocab, in tokens.
MaxLen == 3

\* Longest input text made of the words of PlainVocab only, in tokens.
MaxPlainLen == 4

Min(a, b) == IF a <= b THEN a ELSE b

\* The words the input texts are made of: "abcd"; "Ab.cd", which normalises
\* to "abcd"; "abce", whose similarity to "abcd" is exactly 0.75; "ad", whose
\* similarity to "abcd" is 0.667 and to "abce" 0.333; and ".", which
\* normalises to "".
Vocab ==
    { <<"a", "b", "c", "d">>,
      <<"A", "b", ".", "c", "d">>,
      <<"a", "b", "c", "e">>,
      <<"a", "d">>,
      <<".">> }

\* The words of the longer input texts: those of Vocab without capitals or
\* punctuation.
PlainVocab == { <<"a", "b", "c", "d">>, <<"a", "b", "c", "e">>, <<"a", "d">> }

RECURSIVE SeqsUpTo(_, _)
SeqsUpTo(S, n) ==
    IF n = 0 THEN { <<>> }
    ELSE LET shorter == SeqsUpTo(S, n - 1)
         IN  shorter \cup { Append(s, x) : s \in { t \in shorter : Len(t) = n - 1 }, x \in S }

\* The words of ws with the blanks sep between neighbours.
RECURSIVE JoinWords(_, _)
JoinWords(ws, sep) ==
    IF ws = <<>> THEN <<>>
    ELSE IF Len(ws) = 1 THEN ws[1]
    ELSE ws[1] \o sep \o JoinWords(Tail(ws), sep)

\* A token sequence written as a text: plainly, with single blanks, or
\* padded, with a leading blank, a trailing blank and double blanks between.
PlainText(ws) == JoinWords(ws, <<" ">>)
PaddedText(ws) == <<" ">> \o JoinWords(ws, <<" ", " ">>) \o <<" ">>

\* The input texts of at most n words of V.
Texts(V, n) ==
    LET wss == SeqsUpTo(V, n)
    IN  { PlainText(ws) : ws \in wss } \cup { PaddedText(ws) : ws \in wss }

\* ------------------------------------------------------------------------
\* Normalizer
\* ------------------------------------------------------------------------

IsSpace(c) == c = " "

\* str.lower() on the characters of the model.
LowerChar(c) == IF c = "A" THEN "a" ELSE c

\* A character the pattern [^\w\s] matches: neither a word character nor
\* white space.
IsPunctuation(c) == c = "."

RECURSIVE StripLeft(_)
StripLeft(s) ==
    IF s # <<>> /\ IsSpace(s[1]) THEN StripLeft(Tail(s)) ELSE s

RECURSIVE StripRight(_)
StripRight(s) ==
    IF s # <<>> /\ IsSpace(s[Len(s)]) THEN StripRight(SubSeq(s, 1, Len(s) - 1)) ELSE s

\* normalize_word: lower-case, drop punctuation, strip.
normalize_word(text) ==
    LET lowered == [i \in 1..Len(text) |-> LowerChar(text[i])]
        kept == SelectSeq(lowered, LAMBDA c : ~IsPunctuation(c))
    IN  StripRight(StripLeft(kept))

\* ------------------------------------------------------------------------
\* Similarity scorer
\* ------------------------------------------------------------------------

are_equivalent(word1, word2) ==
    IF word1 = <<>> /\ word2 = <<>> THEN TRUE
    ELSE IF word1 = <<>> \/ word2 = <<>> THEN FALSE
    ELSE word1 = word2

\* difflib's find_longest_match on whole sequences: the blocks a[i..i+k-1] =
\* b[j..j+k-1] with k >= 1, of which it returns the longest, then the one
\* starting earliest in a, then the one starting earliest in b.
MatchingBlocks(a, b) ==
    { t \in (1..Len(a)) \X (1..Len(b)) \X (1..Min(Len(a), Len(b))) :
        /\ t[1] + t[3] - 1 <= Len(a)
        /\ t[2] + t[3] - 1 <= Len(b)
        /\ SubSeq(a, t[1], t[1] + t[3] - 1) = SubSeq(b, t[2], t[2] + t[3] - 1) }

BlockBefore(s, t) ==
    \/ s[3] > t[3]
    \/ s[3] = t[3] /\ s[1] < t[1]
    \/ s[3] = t[3] /\ s[1] = t[1] /\ s[2] <= t[2]

\* The number of matched characters SequenceMatcher.get_matching_blocks adds
\* up: the longest block, then the same to its left and to its right.
RECURSIVE MatchedChars(_, _)
MatchedChars(a, b) ==
    LET blocks == MatchingBlocks(a, b)
    IN  IF blocks = {} THEN 0
        ELSE LET best == CHOOSE t \in blocks : \A s \in blocks : BlockBefore(t, s)
                 i == best[1]
                 j == best[2]
                 k == best[3]
             IN  k + MatchedChars(SubSeq(a, 1, i - 1), SubSeq(b, 1, j - 1))
                   + MatchedChars(SubSeq(a, i + k, Len(a)), SubSeq(b, j + k, Len(b)))

\* calculate_similarity: SequenceMatcher(None, word1, word2).ratio() =
\* 2 * matched / (len(word1) + len(word2)), as the fraction <<num, den>>.
calculate_similarity(word1, word2) ==
    IF word1 = <<>> /\ word2 = <<>> THEN <<1, 1>>
    ELSE IF word1 = <<>> \/ word2 = <<>> THEN <<0, 1>>
    ELSE <<2 * MatchedChars(word1, word2), Len(word1) + Len(word2)>>

\* p >= q for fractions with positive denominators.
FracGeq(p, q) == p[1] * q[2] >= q[1] * p[2]

\* ------------------------------------------------------------------------
\* Word tokenizer
\* ------------------------------------------------------------------------

\* Word(text=...) with __post_init__: normalized is filled in from text.
\* The timestamp field is never read by the comparison and is left out.
Word(text) == [text |-> text, normalized |-> normalize_word(text)]

\* re.findall(r'\S+', text): the maximal runs of non-blank characters.
RECURSIVE FindWords(_, _, _)
FindWords(text, i, cur) ==
    IF i > Len(text) THEN (IF cur = <<>> THEN <<>> ELSE <<cur>>)
    ELSE IF IsSpace(text[i])
         THEN (IF cur = <<>> THEN <<>> ELSE <<cur>>) \o FindWords(text, i + 1, <<>>)
         ELSE FindWords(text, i + 1, Append(cur, text[i]))

text_to_word_list(text) ==
    LET words == FindWords(text, 1, <<>>)
    IN  [i \in 1..Len(words) |-> Word(words[i])]

\* ------------------------------------------------------------------------
\* State
\* ------------------------------------------------------------------------

VARIABLES
    mistake_threshold,  \* comparer configuration: a fraction <<num, den>>
    window_size,        \* comparer configuration
    max_search,         \* comparer configuration
    user_words,         \* compare: the user's tokens
    reference_words,    \* compare: the reference tokens
    user_idx,           \* compare: cursor into user_words, 0-based
    reference_idx,      \* compare: cursor into reference_words, 0-based
    matched_once,       \* compare: the local flag of that name
    result,             \* compare: the diff built so far
    pc,                 \* "compare", "returned" (compare has returned its
                        \* diff), "scored" (get_detailed_comparison returned),
                        \* "idle" (no call of compare)
    accuracy,           \* get_detailed_comparison: a fraction <<num, den>>
    stats,              \* get_detailed_comparison: the statistics
    realign_calls,      \* history: calls of realign_with_dubles so far
    flushes,            \* history: preamble flushes that emitted entries so far
    other,              \* the locals of a second, suspended call of compare
    sessions,           \* the transcription_sessions table: id -> row
    response            \* the last HTTP response, with the request it answers

vars ==
    <<mistake_threshold, window_size, max_search, user_words, reference_words,
      user_idx, reference_idx, matched_once, result, pc, accuracy, stats,
      realign_calls, flushes, other, sessions, response>>

\* No index: the u or r of an entry that carries no token of that side.
NoIdx == 0 - 1

\* A diff entry {'text': ..., 'type': ...}.  The fields u and r are history
\* annotations the source does not have: the index of the user token whose
\* text the entry carries and the index of the reference token the entry
\* stands for (NoIdx when there is none).
Entry(text, type, u, r) == [text |-> text, type |-> type, u |-> u, r |-> r]

\* ------------------------------------------------------------------------
\* Aligner
\* ------------------------------------------------------------------------

\* Mutant of is_mistake: the threshold itself does not count.
is_mistake_Strict(user_norm, reference_norm) ==
    ~FracGeq(mistake_threshold, calculate_similarity(user_norm, reference_norm))

is_mistake(user_norm, reference_norm) ==
    FracGeq(calculate_similarity(user_norm, reference_norm), mistake_threshold)

generate_dubles(words) ==
    [i \in 1..(Len(words) - 1) |-> <<words[i], words[i + 1]>>]

are_dubles_equivalent(duble1, duble2) ==
    /\ are_equivalent(duble1[1].normalized, duble2[1].normalized)
    /\ are_equivalent(duble1[2].normalized, duble2[2].normalized)

\* result.append({'text': reference_words[idx].text, 'type': 'missing'}) for
\* idx in range(from, to).
MissingRange(words, from, to) ==
    [n \in 1..(IF to > from THEN to - from ELSE 0) |->
        Entry(words[from + n].text, "missing", NoIdx, from + n - 1)]

SetMin(S) == CHOOSE x \in S : \A y \in S : x <= y

\* Mutant of FirstUnused: a user gap word that is already used is found
\* again.
FirstUnused_IgnoresUsed(user_gap, used, rw, exactly) ==
    LET found == { i \in 1..Len(user_gap) :
                     IF exactly
                     THEN are_equivalent(user_gap[i].normalized, rw.normalized)
                     ELSE is_mistake(user_gap[i].normalized, rw.normalized) }
    IN  IF found = {} THEN 0 ELSE SetMin(found)

\* The first position of user_gap outside used whose word is equivalent to
\* rw (exactly) or a mistake of it (otherwise); 0 when there is none.
FirstUnused(user_gap, used, rw, exactly) ==
    LET found == { i \in (1..Len(user_gap)) \ used :
                     IF exactly
                     THEN are_equivalent(user_gap[i].normalized, rw.normalized)
                     ELSE is_mistake(user_gap[i].normalized, rw.normalized) }
    IN  IF found = {} THEN 0 ELSE SetMin(found)

\* Mutant of WrongUnused: every user gap word is emitted as wrong, claimed
\* or not.
RECURSIVE WrongUnused_All(_, _, _, _)
WrongUnused_All(user_gap, used, i, ubase) ==
    IF i > Len(user_gap) THEN <<>>
    ELSE <<Entry(user_gap[i].text, "wrong", ubase + i - 1, NoIdx)>>
         \o WrongUnused_All(user_gap, used, i + 1, ubase)

\* Mutant of WrongUnused: the unused user gap words are emitted last to
\* first.
RECURSIVE WrongUnused_Reversed(_, _, _, _)
WrongUnused_Reversed(user_gap, used, i, ubase) ==
    IF i > Len(user_gap) THEN <<>>
    ELSE WrongUnused_Reversed(user_gap, used, i + 1, ubase)
         \o (IF i \in used THEN <<>>
             ELSE <<Entry(user_gap[i].text, "wrong", ubase + i - 1, NoIdx)>>)

\* The second loop of fill_field_gaps from position i on: the user gap
\* words outside used, as wrong.
RECURSIVE WrongUnused(_, _, _, _)
WrongUnused(user_gap, used, i, ubase) ==
    IF i > Len(user_gap) THEN <<>>
    ELSE (IF i \in used THEN <<>>
          ELSE <<Entry(user_gap[i].text, "wrong", ubase + i - 1, NoIdx)>>)
         \o WrongUnused(user_gap, used, i + 1, ubase)

\* fill_field_gaps from the k-th reference gap word on, used being the
\* positions of user_gap claimed so far; ubase and rbase are the indices of
\* the first gap words in the whole sequences.
RECURSIVE FillFrom(_, _, _, _, _, _)
FillFrom(user_gap, reference_gap, k, used, ubase, rbase) ==
    IF k > Len(reference_gap) THEN WrongUnused(user_gap, used, 1, ubase)
    ELSE LET rw == reference_gap[k]
             exact == FirstUnused(user_gap, used, rw, TRUE)
             near == FirstUnused(user_gap, used, rw, FALSE)
         IN  IF exact # 0
             THEN <<Entry(user_gap[exact].text, "correct", ubase + exact - 1, rbase + k - 1)>>
                  \o FillFrom(user_gap, reference_gap, k + 1, used \cup {exact}, ubase, rbase)
             ELSE IF near # 0
             THEN <<Entry(user_gap[near].text, "mistake", ubase + near - 1, rbase + k - 1)>>
                  \o FillFrom(user_gap, reference_gap, k + 1, used \cup {near}, ubase, rbase)
             ELSE <<Entry(rw.text, "missing", NoIdx, rbase + k - 1)>>
                  \o FillFrom(user_gap, reference_gap, k + 1, used, ubase, rbase)

\* fill_field_gaps: the entries it appends to result.
fill_field_gaps(user_gap, reference_gap, ubase, rbase) ==
    FillFrom(user_gap, reference_gap, 1, {}, ubase, rbase)

\* The duble search of realign_with_dubles: the hits <<user_offset,
\* window_start, reference_offset>> of its three nested loops.
DubleHits(uwords, user_start_idx, rwords, reference_start_idx) ==
    LET user_new_words == SubSeq(uwords, user_start_idx + 1, Len(uwords))
        reference_target == SubSeq(rwords, reference_start_idx + 1, Len(rwords))
        user_dubles == generate_dubles(user_new_words)
        starts == { w \in 0..(Min(Len(reference_target), max_search) - 1) :
                      w % window_size = 0 }
        window_end(w) == Min(w + window_size, Len(reference_target))
        reference_dubles(w) ==
            generate_dubles(SubSeq(reference_target, w + 1, window_end(w)))
    IN  { h \in (0..(Len(user_dubles) - 1)) \X starts \X (0..(Len(reference_target) - 1)) :
            /\ h[3] + 1 <= Len(reference_dubles(h[2]))
            /\ are_dubles_equivalent(user_dubles[h[1] + 1],
                                     reference_dubles(h[2])[h[3] + 1]) }

\* Mutant of HitBefore: the hit nearest to the reference cursor comes first.
HitBefore_NearestReference(g, h) ==
    \/ g[2] + g[3] < h[2] + h[3]
    \/ g[2] + g[3] = h[2] + h[3] /\ g[1] <= h[1]

\* The order in which the nested loops reach the hits.
HitBefore(g, h) ==
    \/ g[1] < h[1]
    \/ g[1] = h[1] /\ g[2] < h[2]
    \/ g[1] = h[1] /\ g[2] = h[2] /\ g[3] <= h[3]

\* Mutant of SingleHits: the scan runs to the end of the reference words.
SingleHits_Unbounded(uwords, user_start_idx, rwords, reference_start_idx) ==
    { j \in reference_start_idx..(Len(rwords) - 1) :
        /\ user_start_idx < Len(uwords)
        /\ \/ are_equivalent(uwords[user_start_idx + 1].normalized,
                             rwords[j + 1].normalized)
           \/ is_mistake(uwords[user_start_idx + 1].normalized,
                         rwords[j + 1].normalized) }

\* The single-token fallback of realign_with_dubles: the reference indices
\* below max_reference_idx at which the current user word matches.
SingleHits(uwords, user_start_idx, rwords, reference_start_idx) ==
    LET max_reference_idx == Min(Len(rwords), reference_start_idx + max_search)
    IN  { j \in reference_start_idx..(max_reference_idx - 1) :
            /\ user_start_idx < Len(uwords)
            /\ \/ are_equivalent(uwords[user_start_idx + 1].normalized,
                                 rwords[j + 1].normalized)
               \/ is_mistake(uwords[user_start_idx + 1].normalized,
                             rwords[j + 1].normalized) }

\* Mutant of AnchorAt: the start of the window is left out of the
\* reference index of the anchor.
AnchorAt_WindowStartDropped(uwords, user_start_idx, rwords, reference_start_idx, matched, h) ==
    LET user_offset == h[1]
        full_reference_start_idx == reference_start_idx + h[3]
        flush == IF ~matched /\ full_reference_start_idx > 0
                 THEN MissingRange(rwords, reference_start_idx, full_reference_start_idx)
                 ELSE <<>>
        gap == fill_field_gaps(
                 SubSeq(uwords, user_start_idx + 1, user_start_idx + user_offset),
                 SubSeq(rwords, reference_start_idx + 1, full_reference_start_idx),
                 user_start_idx, reference_start_idx)
        anchor == [n \in 1..2 |->
                     Entry(uwords[user_start_idx + user_offset + n].text, "correct",
                           user_start_idx + user_offset + n - 1,
                           full_reference_start_idx + n - 1)]
    IN  [user_idx |-> user_start_idx + user_offset + 2,
         reference_idx |-> full_reference_start_idx + 2,
         out |-> flush \o gap \o anchor,
         flushed |-> flush # <<>>]

\* Mutant of AnchorAt: the cursors are returned three positions past the
\* start of the anchor.
AnchorAt_ThreePast(uwords, user_start_idx, rwords, reference_start_idx, matched, h) ==
    LET user_offset == h[1]
        full_reference_start_idx == reference_start_idx + h[2] + h[3]
        flush == IF ~matched /\ full_reference_start_idx > 0
                 THEN MissingRange(rwords, reference_start_idx, full_reference_start_idx)
                 ELSE <<>>
        gap == fill_field_gaps(
                 SubSeq(uwords, user_start_idx + 1, user_start_idx + user_offset),
                 SubSeq(rwords, reference_start_idx + 1, full_reference_start_idx),
                 user_start_idx, reference_start_idx)
        anchor == [n \in 1..2 |->
                     Entry(uwords[user_start_idx + user_offset + n].text, "correct",
                           user_start_idx + user_offset + n - 1,
                           full_reference_start_idx + n - 1)]
    IN  [user_idx |-> user_start_idx + user_offset + 3,
         reference_idx |-> full_reference_start_idx + 3,
         out |-> flush \o gap \o anchor,
         flushed |-> flush # <<>>]

\* realign_with_dubles on the duble hit h: flush, gap filling, the anchor.
AnchorAt(uwords, user_start_idx, rwords, reference_start_idx, matched, h) ==
    LET user_offset == h[1]
        full_reference_start_idx == reference_start_idx + h[2] + h[3]
        flush == IF ~matched /\ full_reference_start_idx > 0
                 THEN MissingRange(rwords, reference_start_idx, full_reference_start_idx)
                 ELSE <<>>
        gap == fill_field_gaps(
                 SubSeq(uwords, user_start_idx + 1, user_start_idx + user_offset),
                 SubSeq(rwords, reference_start_idx + 1, full_reference_start_idx),
                 user_start_idx, reference_start_idx)
        anchor == [n \in 1..2 |->
                     Entry(uwords[user_start_idx + user_offset + n].text, "correct",
                           user_start_idx + user_offset + n - 1,
                           full_reference_start_idx + n - 1)]
    IN  [user_idx |-> user_start_idx + user_offset + 2,
         reference_idx |-> full_reference_start_idx + 2,
         out |-> flush \o gap \o anchor,
         flushed |-> flush # <<>>]

\* Mutant of SingleAt: the user cursor is returned where it was.
SingleAt_UserStays(uwords, user_start_idx, rwords, reference_start_idx, matched, j) ==
    LET uw == uwords[user_start_idx + 1]
        flush == IF ~matched /\ j > 0
                 THEN MissingRange(rwords, reference_start_idx, j)
                 ELSE <<>>
        type == IF are_equivalent(uw.normalized, rwords[j + 1].normalized)
                THEN "correct" ELSE "mistake"
    IN  [user_idx |-> user_start_idx,
         reference_idx |-> j + 1,
         out |-> flush \o <<Entry(uw.text, type, user_start_idx, j)>>,
         flushed |-> flush # <<>>]

\* Mutant of SingleAt: the similarity is tested before the equivalence.
SingleAt_SimilarityFirst(uwords, user_start_idx, rwords, reference_start_idx, matched, j) ==
    LET uw == uwords[user_start_idx + 1]
        flush == IF ~matched /\ j > 0
                 THEN MissingRange(rwords, reference_start_idx, j)
                 ELSE <<>>
        type == IF is_mistake(uw.normalized, rwords[j + 1].normalized)
                THEN "mistake" ELSE "correct"
    IN  [user_idx |-> user_start_idx + 1,
         reference_idx |-> j + 1,
         out |-> flush \o <<Entry(uw.text, type, user_start_idx, j)>>,
         flushed |-> flush # <<>>]

\* realign_with_dubles on the single-token hit at reference index j.
SingleAt(uwords, user_start_idx, rwords, reference_start_idx, matched, j) ==
    LET uw == uwords[user_start_idx + 1]
        flush == IF ~matched /\ j > 0
                 THEN MissingRange(rwords, reference_start_idx, j)
                 ELSE <<>>
        type == IF are_equivalent(uw.normalized, rwords[j + 1].normalized)
                THEN "correct" ELSE "mistake"
    IN  [user_idx |-> user_start_idx + 1,
         reference_idx |-> j + 1,
         out |-> flush \o <<Entry(uw.text, type, user_start_idx, j)>>,
         flushed |-> flush # <<>>]

\* realign_with_dubles: the cursors it returns and the entries it appends;
\* flushed is a history annotation, whether its preamble flush emitted
\* entries.
realign_with_dubles(uwords, user_start_idx, rwords, reference_start_idx, matched) ==
    LET hits == DubleHits(uwords, user_start_idx, rwords, reference_start_idx)
        singles == SingleHits(uwords, user_start_idx, rwords, reference_start_idx)
    IN  IF hits # {}
        THEN AnchorAt(uwords, user_start_idx, rwords, reference_start_idx, matched,
                      CHOOSE g \in hits : \A o \in hits : HitBefore(g, o))
        ELSE IF singles # {}
        THEN SingleAt(uwords, user_start_idx, rwords, reference_start_idx, matched,
                      SetMin(singles))
        ELSE [user_idx |-> user_start_idx,
              reference_idx |-> reference_start_idx,
              out |-> <<>>,
              flushed |-> FALSE]

\* ------------------------------------------------------------------------
\* Initial state: a comparer with the default configuration and two texts
\* ------------------------------------------------------------------------

\* TranscriptionComparerV4Pro.__init__: the default mistake_threshold 0.75.
DefaultMistakeThreshold == <<3, 4>>

DefaultWindowSize == 20

DefaultMaxSearch == 200

\* The token sequences of the input texts.
Inputs ==
    { text_to_word_list(t) : t \in Texts(Vocab, MaxLen) \cup Texts(PlainVocab, MaxPlainLen) }

NoStats ==
    [correct_words |-> 0, mistake_words |-> 0, missing_words |-> 0,
     wrong_words |-> 0, total_words |-> 0]

\* compare up to its main loop: both texts tokenised, cursors at 0.
InitCompare ==
    /\ user_words \in Inputs
    /\ reference_words \in Inputs
    /\ user_idx = 0
    /\ reference_idx = 0
    /\ matched_once = FALSE
    /\ result = <<>>
    /\ pc = "compare"
    /\ accuracy = <<0, 1>>
    /\ stats = NoStats
    /\ realign_calls = 0
    /\ flushes = 0

\* No second call of compare.
NoCall == [pc |-> "none"]

\* No HTTP request has been answered.
NoResponse == [status |-> 0]

\* The transcription_sessions table without rows.
NoSessions == <<>>

\* One call of compare on a comparer with the default configuration; no
\* other call and no HTTP request.
Init ==
    /\ mistake_threshold = DefaultMistakeThreshold
    /\ window_size = DefaultWindowSize
    /\ max_search = DefaultMaxSearch
    /\ InitCompare
    /\ other = NoCall
    /\ sessions = NoSessions
    /\ response = NoResponse

\* ------------------------------------------------------------------------
\* Initial state: a comparer with any of a few configurations
\* ------------------------------------------------------------------------

\* Longest input text of a comparer with another configuration, in tokens.
CfgMaxLen == 4

\* The words of these texts: "abcd" and "ad", whose similarity is 0.667.
CfgVocab == { <<"a", "b", "c", "d">>, <<"a", "d">> }

\* Longest input text with a word similar to another ("abce"), in tokens.
CfgNearLen == 2

CfgInputs ==
    { text_to_word_list(PlainText(ws)) :
        ws \in SeqsUpTo(CfgVocab, CfgMaxLen) \cup SeqsUpTo(PlainVocab, CfgNearLen) }

\* The arguments of TranscriptionComparerV4Pro.__init__ that are tried:
\* thresholds 0.75 and 0.5, windows of one to three tokens and the default,
\* searches of no to three tokens and the default.
MistakeThresholds == { DefaultMistakeThreshold, <<1, 2>> }

WindowSizes == { 1, 2, 3, DefaultWindowSize }

MaxSearches == { 0, 1, 2, 3, DefaultMaxSearch }

\* TranscriptionComparerV4Pro(mistake_threshold, window_size, max_search)
\* and a call of compare up to its main loop.
InitCfg ==
    /\ mistake_threshold \in MistakeThresholds
    /\ window_size \in WindowSizes
    /\ max_search \in MaxSearches
    /\ user_words \in CfgInputs
    /\ reference_words \in CfgInputs
    /\ user_idx = 0
    /\ reference_idx = 0
    /\ matched_once = FALSE
    /\ result = <<>>
    /\ pc = "compare"
    /\ accuracy = <<0, 1>>
    /\ stats = NoStats
    /\ realign_calls = 0
    /\ flushes = 0
    /\ other = NoCall
    /\ sessions = NoSessions
    /\ response = NoResponse

\* ------------------------------------------------------------------------
\* compare, one action per iteration of its loops
\* ------------------------------------------------------------------------

config == <<mistake_threshold, window_size, max_search>>

inputs == <<user_words, reference_words>>

scored == <<accuracy, stats>>

\* The state outside the running call of compare.
elsewhere == <<other, sessions, response>>

\* The condition of the main loop.
InMainLoop ==
    /\ pc = "compare"
    /\ user_idx < Len(user_words)
    /\ reference_idx < Len(reference_words)

CurrentUser == user_words[user_idx + 1]

CurrentReference == reference_words[reference_idx + 1]

\* Mutant of MainFlush: the flush is made at every match, not only before
\* the first one.
MainFlush_EveryMatch ==
    IF reference_idx > 0
    THEN MissingRange(reference_words, 0, reference_idx)
    ELSE <<>>

\* The preamble flush of the main loop: range(reference_idx) as missing.
MainFlush ==
    IF ~matched_once /\ reference_idx > 0
    THEN MissingRange(reference_words, 0, reference_idx)
    ELSE <<>>

\* Case 1: the words at the cursors are equivalent.
DirectCorrect ==
    /\ InMainLoop
    /\ are_equivalent(CurrentUser.normalized, CurrentReference.normalized)
    /\ result' = result \o MainFlush
                   \o <<Entry(CurrentUser.text, "correct", user_idx, reference_idx)>>
    /\ flushes' = flushes + (IF MainFlush # <<>> THEN 1 ELSE 0)
    /\ matched_once' = TRUE
    /\ user_idx' = user_idx + 1
    /\ reference_idx' = reference_idx + 1
    /\ UNCHANGED <<elsewhere, config, inputs, pc, scored, realign_calls>>

\* Case 2: the words at the cursors are similar.
DirectMistake ==
    /\ InMainLoop
    /\ ~are_equivalent(CurrentUser.normalized, CurrentReference.normalized)
    /\ is_mistake(CurrentUser.normalized, CurrentReference.normalized)
    /\ result' = result \o MainFlush
                   \o <<Entry(CurrentUser.text, "mistake", user_idx, reference_idx)>>
    /\ flushes' = flushes + (IF MainFlush # <<>> THEN 1 ELSE 0)
    /\ matched_once' = TRUE
    /\ user_idx' = user_idx + 1
    /\ reference_idx' = reference_idx + 1
    /\ UNCHANGED <<elsewhere, config, inputs, pc, scored, realign_calls>>

\* Case 3 is reached.
NeedsRealign ==
    /\ InMainLoop
    /\ ~are_equivalent(CurrentUser.normalized, CurrentReference.normalized)
    /\ ~is_mistake(CurrentUser.normalized, CurrentReference.normalized)

Realigned ==
    realign_with_dubles(user_words, user_idx, reference_words, reference_idx, matched_once)

\* Case 3, realignment added results: its cursors are adopted.
RealignStep ==
    /\ NeedsRealign
    /\ \E ra \in { Realigned } :
          /\ ra.out # <<>>
          /\ result' = result \o ra.out
          /\ user_idx' = ra.user_idx
          /\ reference_idx' = ra.reference_idx
          /\ flushes' = flushes + (IF ra.flushed THEN 1 ELSE 0)
    /\ realign_calls' = realign_calls + 1
    /\ UNCHANGED <<elsewhere, config, inputs, matched_once, pc, scored>>

\* Mutant of SingleStepRecovery: the reference word is given up as missing
\* whether or not a word has matched yet.
SingleStepRecovery_Ungated(u, r, matched) ==
    [user_idx |-> u + 1,
     reference_idx |-> r + 1,
     out |-> <<Entry(user_words[u + 1].text, "wrong", u, NoIdx),
               Entry(reference_words[r + 1].text, "missing", NoIdx, r)>>]

\* Mutant of SingleStepRecovery: the reference word is given up and the
\* user word kept.
SingleStepRecovery_ReferenceOnly(u, r, matched) ==
    [user_idx |-> u,
     reference_idx |-> r + 1,
     out |-> <<Entry(reference_words[r + 1].text, "missing", NoIdx, r)>>]

\* The single-step recovery at cursors u and r: the current user word is
\* wrong and, once a word has matched, the current reference word missing.
SingleStepRecovery(u, r, matched) ==
    [user_idx |-> u + 1,
     reference_idx |-> IF matched THEN r + 1 ELSE r,
     out |-> <<Entry(user_words[u + 1].text, "wrong", u, NoIdx)>>
             \o (IF matched
                 THEN <<Entry(reference_words[r + 1].text, "missing", NoIdx, r)>>
                 ELSE <<>>)]

\* Case 3, realignment added nothing: single-step recovery.
RecoveryStep ==
    /\ NeedsRealign
    /\ \E ra \in { Realigned } :
          /\ ra.out = <<>>
          /\ \E rec \in { SingleStepRecovery(ra.user_idx, ra.reference_idx, matched_once) } :
                /\ result' = result \o rec.out
                /\ user_idx' = rec.user_idx
                /\ reference_idx' = rec.reference_idx
    /\ realign_calls' = realign_calls + 1
    /\ UNCHANGED <<elsewhere, config, inputs, matched_once, pc, scored, flushes>>

\* Mutant of DrainUser: after one wrong entry the user cursor is put at the
\* end.
DrainUser_ToEnd ==
    /\ pc = "compare"
    /\ ~InMainLoop
    /\ user_idx < Len(user_words)
    /\ result' = Append(result, Entry(CurrentUser.text, "wrong", user_idx, NoIdx))
    /\ user_idx' = Len(user_words)
    /\ UNCHANGED <<elsewhere, config, inputs, reference_idx, matched_once, pc, scored, realign_calls,
                   flushes>>

\* One iteration of "while user_idx < len(user_words)".
DrainUser ==
    /\ pc = "compare"
    /\ ~InMainLoop
    /\ user_idx < Len(user_words)
    /\ result' = Append(result, Entry(CurrentUser.text, "wrong", user_idx, NoIdx))
    /\ user_idx' = user_idx + 1
    /\ UNCHANGED <<elsewhere, config, inputs, reference_idx, matched_once, pc, scored, realign_calls,
                   flushes>>

\* Mutant of DrainReference: the remaining reference words are emitted as
\* wrong.
DrainReference_AsWrong ==
    /\ pc = "compare"
    /\ ~InMainLoop
    /\ ~(user_idx < Len(user_words))
    /\ reference_idx < Len(reference_words)
    /\ result' = Append(result, Entry(CurrentReference.text, "wrong", NoIdx, reference_idx))
    /\ reference_idx' = reference_idx + 1
    /\ UNCHANGED <<elsewhere, config, inputs, user_idx, matched_once, pc, scored, realign_calls,
                   flushes>>

\* One iteration of "while reference_idx < len(reference_words)".
DrainReference ==
    /\ pc = "compare"
    /\ ~InMainLoop
    /\ ~(user_idx < Len(user_words))
    /\ reference_idx < Len(reference_words)
    /\ result' = Append(result, Entry(CurrentReference.text, "missing", NoIdx, reference_idx))
    /\ reference_idx' = reference_idx + 1
    /\ UNCHANGED <<elsewhere, config, inputs, user_idx, matched_once, pc, scored, realign_calls,
                   flushes>>

\* return result
Return ==
    /\ pc = "compare"
    /\ ~(user_idx < Len(user_words))
    /\ ~(reference_idx < Len(reference_words))
    /\ pc' = "returned"
    /\ UNCHANGED <<elsewhere, config, inputs, user_idx, reference_idx, matched_once, result,
                   scored, realign_calls, flushes>>

\* ------------------------------------------------------------------------
\* compare as a function, and two calls of it on one comparer
\* ------------------------------------------------------------------------

\* words[from:] as wrong entries: the first drain loop of compare.
WrongRange(words, from) ==
    [n \in 1..(IF Len(words) > from THEN Len(words) - from ELSE 0) |->
        Entry(words[from + n].text, "wrong", from + n - 1, NoIdx)]

RECURSIVE CompareFrom(_, _, _, _, _)

\* Case 3 of the main loop at cursors u and r, ra being what
\* realign_with_dubles returned, and the rest of the call.
AfterRealign(uwords, rwords, u, r, matched, ra) ==
    IF ra.out # <<>>
    THEN ra.out \o CompareFrom(uwords, rwords, ra.user_idx, ra.reference_idx, matched)
    ELSE IF matched
    THEN <<Entry(uwords[u + 1].text, "wrong", u, NoIdx),
           Entry(rwords[r + 1].text, "missing", NoIdx, r)>>
         \o CompareFrom(uwords, rwords, u + 1, r + 1, matched)
    ELSE <<Entry(uwords[u + 1].text, "wrong", u, NoIdx)>>
         \o CompareFrom(uwords, rwords, u + 1, r, matched)

\* The entries compare appends from cursors u and r on, matched being its
\* local matched_once: the main loop and the two drain loops.
CompareFrom(uwords, rwords, u, r, matched) ==
    IF u < Len(uwords) /\ r < Len(rwords)
    THEN IF \/ are_equivalent(uwords[u + 1].normalized, rwords[r + 1].normalized)
            \/ is_mistake(uwords[u + 1].normalized, rwords[r + 1].normalized)
         THEN (IF ~matched /\ r > 0 THEN MissingRange(rwords, 0, r) ELSE <<>>)
              \o <<Entry(uwords[u + 1].text,
                         IF are_equivalent(uwords[u + 1].normalized, rwords[r + 1].normalized)
                         THEN "correct" ELSE "mistake",
                         u, r)>>
              \o CompareFrom(uwords, rwords, u + 1, r + 1, TRUE)
         ELSE AfterRealign(uwords, rwords, u, r, matched,
                           realign_with_dubles(uwords, u, rwords, r, matched))
    ELSE WrongRange(uwords, u) \o MissingRange(rwords, r, Len(rwords))

\* The diff one call of compare returns for two token sequences when it
\* runs alone.
compare(uwords, rwords) == CompareFrom(uwords, rwords, 0, 0, FALSE)

\* Longest input text of two concurrent calls, in tokens.
ConcMaxLen == 2

\* The token sequences of the first call, over "abcd", "abce" and "ad", and
\* those of the second call, over "abcd" and "ad".
ConcInputs == { text_to_word_list(PlainText(ws)) : ws \in SeqsUpTo(PlainVocab, ConcMaxLen) }

ConcOtherInputs == { text_to_word_list(PlainText(ws)) : ws \in SeqsUpTo(CfgVocab, ConcMaxLen) }

\* The local variables of the running call.
Locals ==
    [user_words |-> user_words, reference_words |-> reference_words,
     user_idx |-> user_idx, reference_idx |-> reference_idx,
     matched_once |-> matched_once, result |-> result, pc |-> pc,
     accuracy |-> accuracy, stats |-> stats,
     realign_calls |-> realign_calls, flushes |-> flushes]

\* The locals of a call of compare that has not made a step yet.
NewCall(uwords, rwords) ==
    [user_words |-> uwords, reference_words |-> rwords,
     user_idx |-> 0, reference_idx |-> 0,
     matched_once |-> FALSE, result |-> <<>>, pc |-> "compare",
     accuracy |-> <<0, 1>>, stats |-> NoStats,
     realign_calls |-> 0, flushes |-> 0]

\* Two calls of compare on one comparer with the default configuration,
\* the second one suspended.
InitConc ==
    /\ mistake_threshold = DefaultMistakeThreshold
    /\ window_size = DefaultWindowSize
    /\ max_search = DefaultMaxSearch
    /\ user_words \in ConcInputs
    /\ reference_words \in ConcInputs
    /\ user_idx = 0
    /\ reference_idx = 0
    /\ matched_once = FALSE
    /\ result = <<>>
    /\ pc = "compare"
    /\ accuracy = <<0, 1>>
    /\ stats = NoStats
    /\ realign_calls = 0
    /\ flushes = 0
    /\ \E uwords \in ConcOtherInputs, rwords \in ConcOtherInputs :
          other = NewCall(uwords, rwords)
    /\ sessions = NoSessions
    /\ response = NoResponse

\* Mutant of Switch: matched_once is kept on the comparer, not in the
\* frame of the call, so the resumed call goes on with the flag of the
\* suspended one.
Switch_SharedFlag ==
    /\ other.pc # "none"
    /\ other' = Locals
    /\ user_words' = other.user_words
    /\ reference_words' = other.reference_words
    /\ user_idx' = other.user_idx
    /\ reference_idx' = other.reference_idx
    /\ matched_once' = matched_once
    /\ result' = other.result
    /\ pc' = other.pc
    /\ accuracy' = other.accuracy
    /\ stats' = other.stats
    /\ realign_calls' = other.realign_calls
    /\ flushes' = other.flushes
    /\ UNCHANGED <<config, sessions, response>>

\* The scheduler suspends the running call and resumes the other one: each
\* call goes on with its own local variables; the comparer is shared.
Switch ==
    /\ other.pc # "none"
    /\ other' = Locals
    /\ user_words' = other.user_words
    /\ reference_words' = other.reference_words
    /\ user_idx' = other.user_idx
    /\ reference_idx' = other.reference_idx
    /\ matched_once' = other.matched_once
    /\ result' = other.result
    /\ pc' = other.pc
    /\ accuracy' = other.accuracy
    /\ stats' = other.stats
    /\ realign_calls' = other.realign_calls
    /\ flushes' = other.flushes
    /\ UNCHANGED <<config, sessions, response>>

\* ------------------------------------------------------------------------
\* Scorer
\* ------------------------------------------------------------------------

\* sum(1 for item in comparison if item['type'] == type)
CountType(comparison, type) ==
    Len(SelectSeq(comparison, LAMBDA item : item.type = type))

\* Mutant of TotalCount: the wrong words are left out of the total.
TotalCount_NoWrong(correct_count, mistake_count, missing_count, wrong_count) ==
    correct_count + mistake_count + missing_count

\* correct_count + mistake_count + missing_count + wrong_count
TotalCount(correct_count, mistake_count, missing_count, wrong_count) ==
    correct_count + mistake_count + missing_count + wrong_count

\* Mutant of Accuracy: the weights of correct and mistake are swapped.
Accuracy_SwappedWeights(correct_count, mistake_count, total_count) ==
    IF total_count > 0
    THEN <<correct_count + 2 * mistake_count, 2 * total_count>>
    ELSE <<0, 1>>

\* Mutant of Accuracy: the division is made without testing total_count.
Accuracy_NoGuard(correct_count, mistake_count, total_count) ==
    <<2 * correct_count + mistake_count, 2 * total_count>>

\* (correct_count + mistake_count * 0.5) / total_count, or 0.0.
Accuracy(correct_count, mistake_count, total_count) ==
    IF total_count > 0
    THEN <<2 * correct_count + mistake_count, 2 * total_count>>
    ELSE <<0, 1>>

\* get_detailed_comparison after its call of compare, which it makes on a
\* comparer with the default configuration.
GetDetailedComparison ==
    /\ pc = "returned"
    /\ config = <<DefaultMistakeThreshold, DefaultWindowSize, DefaultMaxSearch>>
    /\ LET correct_count == CountType(result, "correct")
           mistake_count == CountType(result, "mistake")
           missing_count == CountType(result, "missing")
           wrong_count == CountType(result, "wrong")
           total_count == TotalCount(correct_count, mistake_count, missing_count, wrong_count)
       IN  /\ accuracy' = Accuracy(correct_count, mistake_count, total_count)
           /\ stats' = [correct_words |-> correct_count,
                        mistake_words |-> mistake_count,
                        missing_words |-> missing_count,
                        wrong_words |-> wrong_count,
                        total_words |-> total_count]
    /\ pc' = "scored"
    /\ UNCHANGED <<elsewhere, config, inputs, user_idx, reference_idx, matched_once, result,
                   realign_calls, flushes>>

Next ==
    \/ DirectCorrect
    \/ DirectMistake
    \/ RealignStep
    \/ RecoveryStep
    \/ DrainUser
    \/ DrainReference
    \/ Return
    \/ GetDetailedComparison

Spec == Init /\ [][Next]_vars

\* The same steps on a comparer with any of the configurations tried.
SpecCfg == InitCfg /\ [][Next]_vars

\* Longest input text of a call that is followed to its end, in tokens.
LiveMaxLen == 3

LiveInputs == { text_to_word_list(PlainText(ws)) : ws \in SeqsUpTo(CfgVocab, LiveMaxLen) }

\* A comparer with any of the configurations tried and a call of compare up
\* to its main loop.
InitLive ==
    /\ mistake_threshold \in MistakeThresholds
    /\ window_size \in WindowSizes
    /\ max_search \in MaxSearches
    /\ user_words \in LiveInputs
    /\ reference_words \in LiveInputs
    /\ user_idx = 0
    /\ reference_idx = 0
    /\ matched_once = FALSE
    /\ result = <<>>
    /\ pc = "compare"
    /\ accuracy = <<0, 1>>
    /\ stats = NoStats
    /\ realign_calls = 0
    /\ flushes = 0
    /\ other = NoCall
    /\ sessions = NoSessions
    /\ response = NoResponse

\* Where a call of compare is: its cursors and whether it has returned.
position == <<user_idx, reference_idx, pc>>

\* A step of compare before its return statement has been executed; each
\* of them moves a cursor forward or returns.
Running ==
    /\ pc = "compare"
    /\ pc' \in {"compare", "returned"}
    /\ user_idx' \in user_idx..Len(user_words)
    /\ reference_idx' \in reference_idx..Len(reference_words)

\* The call of compare running on: for as long as it has not returned,
\* Python executes its next statement.
SpecLive == InitLive /\ [][Next]_vars /\ WF_position(Running)

\* Two calls on one comparer, interleaved at every iteration.
NextConc ==
    \/ Next
    \/ Switch

SpecConc == InitConc /\ [][NextConc]_vars

\* ------------------------------------------------------------------------
\* The transcription session routes of api/routes/transcriptions.py
\* ------------------------------------------------------------------------

\* The session ids the store can issue.
MaxSessions == 4

\* "transcriptions_limit": 3, the free tier's number of sessions.
FreeTranscriptionsLimit == 3

\* The authenticated users; the second one has is_premium set.
Users == {"u1", "u2"}

PremiumUsers == {"u2"}

\* An Optional value: <<>> is None, <<x>> is x.
None == <<>>

Some(x) == <<x>>

\* The texts of the request bodies: "ad" and "Ab.".
TextAd == <<"a", "d">>

TextAb == <<"A", "b", ".">>

\* re.sub(r'\s+', ' ', text): every run of blanks becomes one blank.
RECURSIVE CollapseSpaces(_)
CollapseSpaces(text) ==
    IF text = <<>> THEN <<>>
    ELSE IF IsSpace(text[1]) /\ Len(text) > 1 /\ IsSpace(text[2])
    THEN CollapseSpaces(Tail(text))
    ELSE <<text[1]>> \o CollapseSpaces(Tail(text))

\* services/transcription.py preprocess_text.
preprocess_text(text) ==
    LET lowered == [i \in 1..Len(text) |-> LowerChar(text[i])]
        kept == SelectSeq(lowered, LAMBDA c : ~IsPunctuation(c))
    IN  StripRight(StripLeft(CollapseSpaces(kept)))

\* services/transcription.py compare_transcriptions: the ratio of the
\* preprocessed texts, 1.0 when both are empty then, 0.0 for an empty text.
compare_transcriptions(user_text, reference_text) ==
    IF user_text = <<>> \/ reference_text = <<>> THEN <<0, 1>>
    ELSE LET clean_user_text == preprocess_text(user_text)
             clean_reference_text == preprocess_text(reference_text)
         IN  IF clean_user_text = <<>> /\ clean_reference_text = <<>> THEN <<1, 1>>
             ELSE <<2 * MatchedChars(clean_user_text, clean_reference_text),
                    Len(clean_user_text) + Len(clean_reference_text)>>

\* The truth value of an Optional[str]: neither None nor "".
Truthy(opt) == opt # None /\ opt[1] # <<>>

\* The bodies of the POST and PUT requests that are tried.
CreateBodies ==
    { [user_transcription |-> Some(TextAd), correct_transcription |-> Some(TextAd)] }

UpdateBodies ==
    { [user_transcription |-> Some(TextAb), correct_transcription |-> None],
      [user_transcription |-> Some(TextAb), correct_transcription |-> Some(TextAd)] }

\* The slot of a deleted row: ids are uuid4 values and never issued twice.
Deleted == [user_id |-> "nobody"]

\* crud.get_transcription finds a row with this id.
Stored(table, id) == id \in DOMAIN table /\ table[id] # Deleted

\* The accuracy score the create and update routes compute.
AccuracyScore(body) ==
    IF Truthy(body.user_transcription) /\ Truthy(body.correct_transcription)
    THEN Some(compare_transcriptions(body.user_transcription[1],
                                     body.correct_transcription[1]))
    ELSE None

Response(status, op, user, id) == [status |-> status, op |-> op, user |-> user, id |-> id]

\* No call of compare is running; the table is empty.
InitApi ==
    /\ mistake_threshold = DefaultMistakeThreshold
    /\ window_size = DefaultWindowSize
    /\ max_search = DefaultMaxSearch
    /\ user_words = <<>>
    /\ reference_words = <<>>
    /\ user_idx = 0
    /\ reference_idx = 0
    /\ matched_once = FALSE
    /\ result = <<>>
    /\ pc = "idle"
    /\ accuracy = <<0, 1>>
    /\ stats = NoStats
    /\ realign_calls = 0
    /\ flushes = 0
    /\ other = NoCall
    /\ sessions = NoSessions
    /\ response = NoResponse

comparison ==
    <<config, inputs, user_idx, reference_idx, matched_once, result, pc, scored,
      realign_calls, flushes, other>>

\* POST /transcriptions/ with crud.create_transcription.  The video_id and
\* created_at columns are never read by the routes and are left out.
CreateTranscription(current_user, transcription) ==
    /\ Len(sessions) < MaxSessions
    /\ sessions' = Append(sessions,
                          [user_id |-> current_user,
                           user_transcription |-> transcription.user_transcription,
                           correct_transcription |-> transcription.correct_transcription,
                           accuracy_score |-> AccuracyScore(transcription)])
    /\ response' = Response(200, "create", current_user, Len(sessions) + 1)
    /\ UNCHANGED comparison

\* GET /transcriptions/{transcription_id}
ReadTranscription(current_user, transcription_id) ==
    /\ response' =
          Response(IF ~Stored(sessions, transcription_id) THEN 404
                   ELSE IF sessions[transcription_id].user_id # current_user THEN 403
                   ELSE 200,
                   "read", current_user, transcription_id)
    /\ UNCHANGED <<comparison, sessions>>

\* crud.update_transcription: the fields that are given are written.
UpdatedRow(row, update_data, accuracy_score) ==
    [row EXCEPT
       !.user_transcription =
          IF update_data.user_transcription # None
          THEN update_data.user_transcription ELSE @,
       !.correct_transcription =
          IF update_data.correct_transcription # None
          THEN update_data.correct_transcription ELSE @,
       !.accuracy_score = IF accuracy_score # None THEN accuracy_score ELSE @]

\* PUT /transcriptions/{transcription_id}
UpdateTranscription(current_user, transcription_id, update_data) ==
    IF ~Stored(sessions, transcription_id)
    THEN /\ response' = Response(404, "update", current_user, transcription_id)
         /\ UNCHANGED <<comparison, sessions>>
    ELSE IF sessions[transcription_id].user_id # current_user
    THEN /\ response' = Response(403, "update", current_user, transcription_id)
         /\ UNCHANGED <<comparison, sessions>>
    ELSE /\ sessions' = [sessions EXCEPT ![transcription_id] =
                            UpdatedRow(@, update_data, AccuracyScore(update_data))]
         /\ response' = Response(200, "update", current_user, transcription_id)
         /\ UNCHANGED comparison

\* Mutant of DeleteTranscription: the owner is not compared with the
\* current user.
DeleteTranscription_AnyUser(current_user, transcription_id) ==
    IF ~Stored(sessions, transcription_id)
    THEN /\ response' = Response(404, "delete", current_user, transcription_id)
         /\ UNCHANGED <<comparison, sessions>>
    ELSE /\ sessions' = [sessions EXCEPT ![transcription_id] = Deleted]
         /\ response' = Response(204, "delete", current_user, transcription_id)
         /\ UNCHANGED comparison

\* DELETE /transcriptions/{transcription_id} with crud.delete_transcription.
DeleteTranscription(current_user, transcription_id) ==
    IF ~Stored(sessions, transcription_id)
    THEN /\ response' = Response(404, "delete", current_user, transcription_id)
         /\ UNCHANGED <<comparison, sessions>>
    ELSE IF sessions[transcription_id].user_id # current_user
    THEN /\ response' = Response(403, "delete", current_user, transcription_id)
         /\ UNCHANGED <<comparison, sessions>>
    ELSE /\ sessions' = [sessions EXCEPT ![transcription_id] = Deleted]
         /\ response' = Response(204, "delete", current_user, transcription_id)
         /\ UNCHANGED comparison

NextApi ==
    \/ \E current_user \in Users, transcription \in CreateBodies :
          CreateTranscription(current_user, transcription)
    \/ \E current_user \in Users, transcription_id \in 1..MaxSessions :
          ReadTranscription(current_user, transcription_id)
    \/ \E current_user \in Users, transcription_id \in 1..MaxSessions,
          update_data \in UpdateBodies :
          UpdateTranscription(current_user, transcription_id, update_data)
    \/ \E current_user \in Users, transcription_id \in 1..MaxSessions :
          DeleteTranscription(current_user, transcription_id)

SpecApi == InitApi /\ [][NextApi]_vars

\* ------------------------------------------------------------------------
\* Properties
\* ------------------------------------------------------------------------

\* compare has returned its diff.
Returned == pc \in {"returned", "scored"}

\* The entries that carry a user token, in diff order.
UserEntries(diff) ==
    SelectSeq(diff, LAMBDA e : e.type \in {"correct", "mistake", "wrong"})

\* The entries that stand for a reference token, in diff order.
ReferenceEntries(diff) ==
    SelectSeq(diff, LAMBDA e : e.type \in {"correct", "mistake", "missing"})

TextsOf(s) == [i \in 1..Len(s) |-> s[i].text]

\* The diff as the caller sees it: text and type only.
Visible(diff) == [i \in 1..Len(diff) |-> <<diff[i].text, diff[i].type>>]

\* words, each as an entry of the given type.
AllAs(words, type) == [i \in 1..Len(words) |-> <<words[i].text, type>>]

IsSorted(s) == \A i \in 1..(Len(s) - 1) : s[i] < s[i + 1]

\* C1, as claimed: once compare has returned, the texts of the diff entries
\* of kinds correct, mistake and wrong, read in diff order, are the texts
\* of the user's tokens in their original order.
C1_UserOrderKept ==
    Returned => TextsOf(UserEntries(result)) = TextsOf(user_words)

\* C1, amended: at every iteration boundary of compare the entries of kinds
\* correct, mistake and wrong carry exactly the user tokens before user_idx,
\* each one once and with its own text.  So every user token ends up in
\* exactly one entry and the tokens of different iterations stay in order;
\* only inside one gap fill may the order of the user tokens change.
C1_UserTokensOnce ==
    LET ue == UserEntries(result)
    IN  /\ Len(ue) = user_idx
        /\ { ue[i].u : i \in 1..Len(ue) } = 0..(user_idx - 1)
        /\ \A i \in 1..Len(ue) : ue[i].text = user_words[ue[i].u + 1].text
        /\ Returned => user_idx = Len(user_words)

\* Witness of C1: compare returned after a gap fill that emitted a later
\* user token before an earlier one.
C1_Witness ==
    /\ Returned
    /\ realign_calls > 0
    /\ ~IsSorted([i \in 1..Len(UserEntries(result)) |-> UserEntries(result)[i].u])

\* C2, as claimed: every reference token the reference cursor has moved
\* past has an entry in the diff, a missing entry or the correct or mistake
\* entry of the user token aligned with it.
C2_NoReferenceOmitted ==
    \A j \in 0..(reference_idx - 1) :
        \E i \in 1..Len(result) :
            /\ result[i].r = j
            /\ result[i].type \in {"correct", "mistake", "missing"}

\* C3, as claimed: no reference token has two entries, so the missing,
\* correct and mistake entries are no more than the reference tokens.
C3_NoReferenceTwice ==
    /\ \A i, k \in 1..Len(result) :
          (i # k /\ result[i].r # NoIdx) => result[i].r # result[k].r
    /\ Len(ReferenceEntries(result)) <= Len(reference_words)

\* Neither equivalent nor a mistake, whichever is the user's word.
Dissimilar(a, b) ==
    /\ ~are_equivalent(a.normalized, b.normalized)
    /\ ~is_mistake(a.normalized, b.normalized)
    /\ ~is_mistake(b.normalized, a.normalized)

\* The user text is P.S and the reference P.G.S with P of p words and G of
\* g words, all words of the reference being pairwise dissimilar.
SkippedClause(p, g) ==
    /\ p >= 1
    /\ g >= 1
    /\ Len(user_words) > p
    /\ Len(reference_words) = Len(user_words) + g
    /\ SubSeq(user_words, 1, p) = SubSeq(reference_words, 1, p)
    /\ SubSeq(user_words, p + 1, Len(user_words))
         = SubSeq(reference_words, p + g + 1, Len(reference_words))
    /\ \A i, j \in 1..Len(reference_words) :
          i # j => Dissimilar(reference_words[i], reference_words[j])
    /\ Len(reference_words) < max_search

\* C4, as claimed: for a user text P.S and a reference P.G.S of pairwise
\* dissimilar words, shorter than max_search, compare returns the words of P
\* as correct, then those of G as missing, then those of S as correct.
C4_SkippedClause ==
    \A p, g \in 1..Len(reference_words) :
        (Returned /\ SkippedClause(p, g)) =>
            Visible(result)
              = AllAs(SubSeq(reference_words, 1, p), "correct")
                \o AllAs(SubSeq(reference_words, p + 1, p + g), "missing")
                \o AllAs(SubSeq(reference_words, p + g + 1, Len(reference_words)), "correct")

\* Both texts have words and no user word is equivalent to, or a mistake
\* of, any reference word.
Disjoint ==
    /\ user_words # <<>>
    /\ reference_words # <<>>
    /\ \A i \in 1..Len(user_words), j \in 1..Len(reference_words) :
          /\ ~are_equivalent(user_words[i].normalized, reference_words[j].normalized)
          /\ ~is_mistake(user_words[i].normalized, reference_words[j].normalized)

\* C5: for disjoint texts the diff grows as the user's words as wrong, in
\* order, followed by the reference words as missing, in order; while a
\* user word is left, the reference cursor is 0 and nothing is missing.
C5_Disjointness ==
    Disjoint =>
        LET expected == AllAs(user_words, "wrong") \o AllAs(reference_words, "missing")
        IN  /\ Len(result) <= Len(expected)
            /\ Visible(result) = SubSeq(expected, 1, Len(result))
            /\ user_idx < Len(user_words) =>
                  /\ reference_idx = 0
                  /\ \A i \in 1..Len(result) : result[i].type # "missing"
            /\ Returned => Visible(result) = expected

\* Witness of C5: compare returned on disjoint texts of two words or more
\* each, after at least two single-step recoveries.
C5_Witness ==
    /\ Returned
    /\ Disjoint
    /\ Len(user_words) >= 2
    /\ Len(reference_words) >= 2
    /\ realign_calls >= 2

\* C6: compare(x, x) never calls realign_with_dubles and returns one correct
\* entry per token of x, in order, with the token's text.
C6_IdentityDiff ==
    user_words = reference_words =>
        /\ realign_calls = 0
        /\ Returned => Visible(result) = AllAs(user_words, "correct")

\* Witness of C6: compare(x, x) returned for an x of three tokens, one of
\* them with an empty normalised form.
C6_Witness ==
    /\ Returned
    /\ user_words = reference_words
    /\ Len(user_words) >= 3
    /\ \E i \in 1..Len(user_words) : user_words[i].normalized = <<>>

\* C7, as claimed: get_detailed_comparison(x, x) returns accuracy 1.0 for
\* every text x.
C7_IdentityScoreAlways ==
    (pc = "scored" /\ user_words = reference_words) =>
        accuracy[1] = accuracy[2]

\* C7, amended: get_detailed_comparison(x, x) returns accuracy 1.0 for
\* every text x of at least one token, and 0.0 for a text without tokens.
C7_IdentityScore ==
    (pc = "scored" /\ user_words = reference_words) =>
        /\ accuracy[2] > 0
        /\ user_words # <<>> => accuracy[1] = accuracy[2]
        /\ user_words = <<>> => accuracy[1] = 0

\* Witness of C7: get_detailed_comparison(x, x) returned for an x of two
\* tokens or more.
C7_Witness ==
    /\ pc = "scored"
    /\ user_words = reference_words
    /\ Len(user_words) >= 2

\* C8: with both token sequences empty the diff is empty, the accuracy 0.0
\* and every count 0; with only the user's empty the diff is the reference
\* tokens as missing; with only the reference's empty it is the user's
\* tokens as wrong.
C8_EmptyInputs ==
    /\ (Returned /\ user_words = <<>> /\ reference_words = <<>>) => result = <<>>
    /\ (pc = "scored" /\ user_words = <<>> /\ reference_words = <<>>) =>
          /\ accuracy = <<0, 1>>
          /\ stats = NoStats
    /\ (Returned /\ user_words = <<>>) =>
          Visible(result) = AllAs(reference_words, "missing")
    /\ (Returned /\ reference_words = <<>>) =>
          Visible(result) = AllAs(user_words, "wrong")
    /\ (user_words = <<>> \/ reference_words = <<>>) => realign_calls = 0

\* Witness of C8: get_detailed_comparison returned for two empty texts.
C8_Witness ==
    /\ pc = "scored"
    /\ user_words = <<>>
    /\ reference_words = <<>>

\* The number of entries of the diff of the given type.
NumberOf(type) == Cardinality({ i \in 1..Len(result) : result[i].type = type })

\* C9: the statistics count the diff entries of each kind, total_words is
\* their sum and the length of the diff, accuracy is (correct + 0.5 *
\* mistake) / total, or 0.0 when total is 0, and lies between 0 and 1;
\* 3 correct and 1 mistake give 0.875.
C9_Aggregation ==
    pc = "scored" =>
        /\ stats.correct_words = NumberOf("correct")
        /\ stats.mistake_words = NumberOf("mistake")
        /\ stats.missing_words = NumberOf("missing")
        /\ stats.wrong_words = NumberOf("wrong")
        /\ stats.total_words = stats.correct_words + stats.mistake_words
                                 + stats.missing_words + stats.wrong_words
        /\ stats.total_words = Len(result)
        /\ accuracy[2] > 0
        /\ stats.total_words > 0 =>
              accuracy[1] * 2 * stats.total_words
                = (2 * stats.correct_words + stats.mistake_words) * accuracy[2]
        /\ stats.total_words = 0 => accuracy[1] = 0
        /\ 0 <= 2 * stats.correct_words + stats.mistake_words
        /\ 2 * stats.correct_words + stats.mistake_words <= 2 * stats.total_words
        /\ 0 <= accuracy[1]
        /\ accuracy[1] <= accuracy[2]
        /\ (stats.correct_words = 3 /\ stats.mistake_words = 1 /\ stats.total_words = 4) =>
              8 * accuracy[1] = 7 * accuracy[2]

\* Witness of C9: a diff of 3 correct entries and 1 mistake has been scored.
C9_Witness ==
    /\ pc = "scored"
    /\ stats.correct_words = 3
    /\ stats.mistake_words = 1
    /\ stats.total_words = 4

\* The similarity of the words at the cursors is the threshold exactly.
AtThreshold ==
    LET sim == calculate_similarity(CurrentUser.normalized, CurrentReference.normalized)
    IN  sim[1] * mistake_threshold[2] = mistake_threshold[1] * sim[2]

\* The similarity of a and b is below the threshold.
BelowThreshold(a, b) ==
    LET sim == calculate_similarity(a, b)
    IN  sim[1] * mistake_threshold[2] < mistake_threshold[1] * sim[2]

\* C10: when the words at the cursors are not equivalent and their
\* similarity is the threshold exactly, the main loop emits the user word
\* as mistake, advances both cursors by one and does not realign; and no
\* mistake entry is ever emitted for a pair below the threshold.
C10_ThresholdInclusive ==
    [][ /\ (/\ InMainLoop
            /\ ~are_equivalent(CurrentUser.normalized, CurrentReference.normalized)
            /\ AtThreshold)
           => /\ result' # <<>>
              /\ result'[Len(result')].text = CurrentUser.text
              /\ result'[Len(result')].type = "mistake"
              /\ Len(UserEntries(result')) = Len(UserEntries(result)) + 1
              /\ user_idx' = user_idx + 1
              /\ reference_idx' = reference_idx + 1
              /\ realign_calls' = realign_calls
        /\ \A i \in 1..Len(result') :
              result'[i].type = "mistake" =>
                  ~BelowThreshold(user_words[result'[i].u + 1].normalized,
                                  reference_words[result'[i].r + 1].normalized)
      ]_vars

\* Witness of C10: the main loop has just emitted a mistake for a pair of
\* words whose similarity is the threshold exactly.
C10_Witness ==
    /\ pc = "compare"
    /\ realign_calls = 0
    /\ result # <<>>
    /\ result[Len(result)].type = "mistake"
    /\ result[Len(result)].u = user_idx - 1
    /\ result[Len(result)].r = reference_idx - 1
    /\ LET sim == calculate_similarity(user_words[user_idx].normalized,
                                       reference_words[reference_idx].normalized)
       IN  sim[1] * mistake_threshold[2] = mistake_threshold[1] * sim[2]

\* The normalised forms of the user token and the reference token an
\* entry of kind correct or mistake pairs.
UserNorm(e) == user_words[e.u + 1].normalized

ReferenceNorm(e) == reference_words[e.r + 1].normalized

\* C11: every correct entry pairs a user token and a reference token whose
\* normalised forms are equivalent, and every mistake entry a pair that is
\* not equivalent and whose similarity is at least mistake_threshold; so no
\* equivalent pair is ever emitted as mistake.
C11_CorrectMistakeExclusive ==
    \A i \in 1..Len(result) :
        /\ result[i].type \in {"correct", "mistake"} =>
              /\ result[i].u \in 0..(Len(user_words) - 1)
              /\ result[i].r \in 0..(Len(reference_words) - 1)
        /\ result[i].type = "correct" =>
              are_equivalent(UserNorm(result[i]), ReferenceNorm(result[i]))
        /\ result[i].type = "mistake" =>
              /\ ~are_equivalent(UserNorm(result[i]), ReferenceNorm(result[i]))
              /\ FracGeq(calculate_similarity(UserNorm(result[i]), ReferenceNorm(result[i])),
                         mistake_threshold)

\* Witness of C11: compare returned a diff with a correct entry and with a
\* mistake entry that a gap fill emitted ahead of an earlier user token.
C11_Witness ==
    /\ Returned
    /\ realign_calls > 0
    /\ \E i \in 1..Len(result) : result[i].type = "correct"
    /\ \E i, k \in 1..Len(result) :
          /\ i < k
          /\ result[i].type = "mistake"
          /\ result[k].u # NoIdx
          /\ result[k].u < result[i].u

\* An index of words, 0-based.
InRange(i, words) == i \in 0..(Len(words) - 1)

\* C12: with window_size >= 1 and max_search >= 0 both cursors stay between
\* 0 and the length of their sequence at every step of compare, so do the
\* cursors realign_with_dubles returns, and every token read by the duble
\* search, the single-token fallback or an emitted entry is at an index
\* inside its sequence.
C12_CursorBounds ==
    (window_size >= 1 /\ max_search >= 0) =>
        /\ user_idx \in 0..Len(user_words)
        /\ reference_idx \in 0..Len(reference_words)
        /\ \A i \in 1..Len(result) :
              /\ result[i].u = NoIdx \/ InRange(result[i].u, user_words)
              /\ result[i].r = NoIdx \/ InRange(result[i].r, reference_words)
        /\ NeedsRealign =>
              /\ Realigned.user_idx \in user_idx..Len(user_words)
              /\ Realigned.reference_idx \in reference_idx..Len(reference_words)
              /\ \A h \in DubleHits(user_words, user_idx, reference_words, reference_idx) :
                    /\ InRange(user_idx + h[1], user_words)
                    /\ InRange(user_idx + h[1] + 1, user_words)
                    /\ InRange(reference_idx + h[2] + h[3], reference_words)
                    /\ InRange(reference_idx + h[2] + h[3] + 1, reference_words)
              /\ \A j \in SingleHits(user_words, user_idx, reference_words, reference_idx) :
                    InRange(j, reference_words)

\* Witness of C12: on a comparer with a window of two or three tokens and
\* a search of one to three tokens, realign_with_dubles skipped the first
\* user token and returned both cursors at the ends of their sequences.
C12_Witness ==
    /\ pc = "compare"
    /\ window_size \in {2, 3}
    /\ max_search \in {1, 2, 3}
    /\ realign_calls = 1
    /\ Len(result) = 3
    /\ result[1].type = "wrong"
    /\ result[3].type = "correct"
    /\ user_idx = 3
    /\ user_idx = Len(user_words)
    /\ reference_idx = 2
    /\ reference_idx = Len(reference_words)

\* C13: no step of compare writes the configuration of the comparer, and
\* in every interleaving of two calls on one comparer each call returns
\* the diff it returns when it runs alone on its inputs.
C13_NoInterference ==
    /\ config = <<DefaultMistakeThreshold, DefaultWindowSize, DefaultMaxSearch>>
    /\ Returned =>
          Visible(result) = Visible(compare(user_words, reference_words))
    /\ other.pc \in {"returned", "scored"} =>
          Visible(other.result) = Visible(compare(other.user_words, other.reference_words))

\* Witness of C13: a call that realigned and never set matched_once has
\* returned while the other call is suspended in the middle of its main
\* loop with matched_once set.
C13_Witness ==
    /\ Returned
    /\ realign_calls > 0
    /\ ~matched_once
    /\ result # <<>>
    /\ other.pc = "compare"
    /\ other.user_idx > 0
    /\ other.user_idx < Len(other.user_words)
    /\ other.reference_idx < Len(other.reference_words)
    /\ other.matched_once

\* C14: a read, update or delete of a session by a user who does not own
\* it is answered 403 and leaves the table as it was; for an id without a
\* stored session the answer is 404 and the table is left as it was; and a
\* session leaves the table only by a delete of its owner, answered 204.
C14_Ownership ==
    [][ /\ response'.op \in {"read", "update", "delete"} =>
              /\ ~Stored(sessions, response'.id) =>
                    /\ response'.status = 404
                    /\ sessions' = sessions
              /\ (/\ Stored(sessions, response'.id)
                  /\ sessions[response'.id].user_id # response'.user) =>
                    /\ response'.status = 403
                    /\ sessions' = sessions
                    /\ Stored(sessions', response'.id)
        /\ \A id \in 1..MaxSessions :
              (Stored(sessions, id) /\ ~Stored(sessions', id)) =>
                  /\ response'.op = "delete"
                  /\ response'.id = id
                  /\ response'.user = sessions[id].user_id
                  /\ response'.status = 204
      ]_vars

\* Witness of C14: a delete of a stored session by a user who does not own
\* it has been answered 403, and the session is still stored.
C14_Witness ==
    /\ response.status = 403
    /\ response.op = "delete"
    /\ Stored(sessions, response.id)
    /\ sessions[response.id].user_id # response.user
    /\ sessions[response.id].accuracy_score # None

\* The number of stored sessions a user owns.
Owned(user) ==
    Cardinality({ id \in DOMAIN sessions : Stored(sessions, id) /\ sessions[id].user_id = user })

\* C15, as claimed: a user who is not premium never owns more than 3
\* sessions created through the API, the create request of a user who owns
\* 3 being answered 403.
C15_FreeTierLimit ==
    \A user \in Users \ PremiumUsers : Owned(user) <= FreeTranscriptionsLimit

\* A match of some kind has been emitted: the diff has an entry of kind
\* correct or mistake.
HasMatch(diff) == \E i \in 1..Len(diff) : diff[i].type \in {"correct", "mistake"}

\* C16, as claimed: as soon as a match of any kind has been emitted, by the
\* main loop, by a duble anchor or by the single-token lookahead,
\* matched_once is true, and it stays true.
C16_MatchedOnceSet ==
    HasMatch(result) => matched_once

\* C17, as claimed: the preamble flush emits entries at most once in a
\* call of compare.
C17_FlushAtMostOnce ==
    flushes <= 1

\* C18, as claimed: when realign_with_dubles adds no output, the step emits
\* the current user token as wrong and advances user_idx by 1; if a match
\* has been emitted before, it also emits the current reference token as
\* missing, after the wrong entry, and advances reference_idx by 1; if
\* none has, it emits nothing else and leaves reference_idx as it is.
C18_SingleStepRecovery ==
    [][ (NeedsRealign /\ Realigned.out = <<>>) =>
            /\ user_idx' = user_idx + 1
            /\ HasMatch(result) =>
                  /\ Visible(result') =
                        Visible(result) \o << <<CurrentUser.text, "wrong">>,
                                              <<CurrentReference.text, "missing">> >>
                  /\ reference_idx' = reference_idx + 1
            /\ ~HasMatch(result) =>
                  /\ Visible(result') = Visible(result) \o << <<CurrentUser.text, "wrong">> >>
                  /\ reference_idx' = reference_idx
      ]_vars

\* C19: realign_with_dubles returns the cursors it was given exactly when
\* it appends nothing, which is exactly when neither search has a hit;
\* when it appends entries, both cursors it returns are greater than the
\* ones it was given, and after a duble anchor they are 2 past the start
\* of the anchor, whose two entries end the output.
C19_ProgressSignal ==
    NeedsRealign =>
        \A ra \in { Realigned } :
            /\ ra.out = <<>> <=> ra.user_idx = user_idx
            /\ ra.out = <<>> <=> ra.reference_idx = reference_idx
            /\ ra.out = <<>> <=>
                  /\ DubleHits(user_words, user_idx, reference_words, reference_idx) = {}
                  /\ SingleHits(user_words, user_idx, reference_words, reference_idx) = {}
            /\ ra.out # <<>> =>
                  /\ ra.user_idx >= user_idx + 1
                  /\ ra.reference_idx >= reference_idx + 1
            /\ DubleHits(user_words, user_idx, reference_words, reference_idx) # {} =>
                  /\ Len(ra.out) >= 2
                  /\ ra.user_idx >= user_idx + 2
                  /\ ra.reference_idx >= reference_idx + 2
                  /\ \A n \in 1..2 :
                        /\ ra.out[Len(ra.out) - 2 + n].type = "correct"
                        /\ ra.out[Len(ra.out) - 2 + n].u = ra.user_idx - 3 + n
                        /\ ra.out[Len(ra.out) - 2 + n].r = ra.reference_idx - 3 + n

\* Witness of C19: with a search of three tokens the single-token
\* lookahead found the first user token at the third reference token and
\* the main loop adopted the cursors 1 and 3.
C19_Witness ==
    /\ pc = "compare"
    /\ max_search = 3
    /\ realign_calls = 1
    /\ user_idx = 1
    /\ reference_idx = 3
    /\ result # <<>>
    /\ result[Len(result)].type = "correct"
    /\ result[Len(result)].u = 0
    /\ result[Len(result)].r = 2

\* C20: a realignment with a duble hit appends, after the flush if there
\* is one, the gap fill of the user tokens from the user cursor to the
\* anchor and of the reference tokens from the reference cursor to the
\* anchor, then the two user tokens of the anchor as correct, in order;
\* the anchor is a user duble equivalent to the reference duble at the
\* same distance before the returned cursors, which are 2 past its start.
C20_DubleAnchorStep ==
    [][ (NeedsRealign /\ DubleHits(user_words, user_idx, reference_words, reference_idx) # {}) =>
            \A i \in { user_idx' - 2 }, j \in { reference_idx' - 2 } :
                /\ i >= user_idx
                /\ j >= reference_idx
                /\ i + 2 <= Len(user_words)
                /\ j + 2 <= Len(reference_words)
                /\ are_dubles_equivalent(<<user_words[i + 1], user_words[i + 2]>>,
                                         <<reference_words[j + 1], reference_words[j + 2]>>)
                /\ Visible(result') =
                      Visible(result)
                      \o Visible(IF ~matched_once /\ j > 0
                                 THEN MissingRange(reference_words, reference_idx, j)
                                 ELSE <<>>)
                      \o Visible(fill_field_gaps(SubSeq(user_words, user_idx + 1, i),
                                                 SubSeq(reference_words, reference_idx + 1, j),
                                                 user_idx, reference_idx))
                      \o << <<user_words[i + 1].text, "correct">>,
                            <<user_words[i + 2].text, "correct">> >>
      ]_vars

\* Witness of C20: with windows of two tokens a duble anchor was found in
\* the second window, at the third and fourth reference token, after a
\* flush and a gap fill of the two reference tokens before it.
C20_Witness ==
    /\ pc = "compare"
    /\ window_size = 2
    /\ realign_calls = 1
    /\ flushes = 1
    /\ user_idx = 2
    /\ reference_idx = 4
    /\ Len(result) = 6
    /\ result[5].type = "correct"
    /\ result[5].r = 2
    /\ result[6].type = "correct"
    /\ result[6].r = 3

\* C21. First hit wins: the duble anchor is at the smallest user offset that
\* has an equivalent reference duble in a scanned window and, for that user
\* offset, at the smallest reference offset; a later user duble is not chosen
\* even when it would skip fewer reference words.
C21_FirstHitWins ==
    [][(NeedsRealign
        /\ DubleHits(user_words, user_idx, reference_words, reference_idx) # {})
       => \A hits \in { DubleHits(user_words, user_idx, reference_words, reference_idx) } :
            \A i \in { SetMin({ h[1] : h \in hits }) } :
              \A k \in { SetMin({ h[2] + h[3] : h \in { g \in hits : g[1] = i } }) } :
                /\ user_idx' = user_idx + i + 2
                /\ reference_idx' = reference_idx + k + 2]_vars

\* The first user duble was anchored one reference word ahead although the
\* second user duble is equivalent to the reference duble at the cursor.
C21_Witness ==
    /\ pc = "compare"
    /\ realign_calls = 1
    /\ Len(user_words) = 3
    /\ Len(reference_words) = 3
    /\ user_idx = 2
    /\ reference_idx = 3
    /\ Len(result) = 4
    /\ are_dubles_equivalent(<<user_words[2], user_words[3]>>,
                             <<reference_words[1], reference_words[2]>>)
    /\ are_dubles_equivalent(<<user_words[1], user_words[2]>>,
                             <<reference_words[2], reference_words[3]>>)

\* C22. Bounded lookahead: with window_size >= 1 and max_search >= 1,
\* realignment matches no reference word max_search or more positions past
\* the reference cursor: the last word it matches (the second word of a
\* duble anchor, the word of a single-token hit) is at an offset below
\* max_search.
C22_BoundedLookahead ==
    [][(/\ NeedsRealign
        /\ window_size >= 1
        /\ max_search >= 1
        /\ Realigned.out # <<>>)
       => (reference_idx' - 1) - reference_idx < max_search]_vars

\* The reference indices from the cursor up to, not including,
\* min(len(reference), cursor + max_search) whose word is equivalent to the
\* current user word or a mistake of it.
LookaheadMatches ==
    { j \in reference_idx..(Min(Len(reference_words), reference_idx + max_search) - 1) :
        \/ are_equivalent(CurrentUser.normalized, reference_words[j + 1].normalized)
        \/ is_mistake(CurrentUser.normalized, reference_words[j + 1].normalized) }

\* C23. Single-token lookahead: when there is no duble anchor, realignment
\* stops at the first reference index j below min(len(reference),
\* reference_start + max_search) whose word is equivalent to or a mistake of
\* the current user word; it emits one entry for the current user word
\* (correct if equivalent, otherwise mistake), preceded before the first
\* match by the reference words [reference_start, j) as missing, and returns
\* (user_start + 1, j + 1). Beyond that bound nothing is matched.
C23_SingleTokenLookahead ==
    [][(NeedsRealign
        /\ DubleHits(user_words, user_idx, reference_words, reference_idx) = {})
       => \A found \in { LookaheadMatches } :
            IF found # {}
            THEN \A j \in { SetMin(found) } :
                   /\ user_idx' = user_idx + 1
                   /\ reference_idx' = j + 1
                   /\ \E pre \in { <<>>, MissingRange(reference_words, reference_idx, j) } :
                         /\ ~HasMatch(result)
                              => pre = MissingRange(reference_words, reference_idx, j)
                         /\ result' = result \o pre
                              \o <<Entry(CurrentUser.text,
                                         IF are_equivalent(CurrentUser.normalized,
                                                           reference_words[j + 1].normalized)
                                         THEN "correct" ELSE "mistake",
                                         user_idx, j)>>
            ELSE \A n \in (Len(result) + 1)..Len(result') :
                   result'[n].type \notin {"correct", "mistake"}]_vars

\* With max_search = 2 the lookahead has passed one reference word, emitted
\* it as missing and matched the user word as a mistake of the next one.
C23_Witness ==
    /\ pc = "compare"
    /\ max_search = 2
    /\ realign_calls = 1
    /\ user_idx = 1
    /\ reference_idx = 2
    /\ Len(result) = 2
    /\ result[1].type = "missing"
    /\ result[1].r = 0
    /\ result[2].type = "mistake"
    /\ result[2].u = 0
    /\ result[2].r = 1

\* A step of realignment onto a duble anchor, and what fill_field_gaps was
\* given and appended in it: the user and reference words between the
\* cursors and the anchor, and the entries between the preamble flush and
\* the two anchor entries.
AnchorStep ==
    /\ NeedsRealign
    /\ DubleHits(user_words, user_idx, reference_words, reference_idx) # {}

UserGap == SubSeq(user_words, user_idx + 1, user_idx' - 2)

ReferenceGap == SubSeq(reference_words, reference_idx + 1, reference_idx' - 2)

GapEntries ==
    SubSeq(result',
           Len(result) + (IF flushes' > flushes THEN Len(ReferenceGap) ELSE 0) + 1,
           Len(result') - 2)

\* The index in user_words of the user word that entry e stands for, as a
\* position of the user gap that starts at index ubase.
GapPosition(e, ubase) == e.u - ubase + 1

\* The entry that the k-th reference gap word must give, the entries gap[1]
\* to gap[k - 1] having claimed their user gap words.
PairedEntry(user_gap, reference_gap, gap, k, ubase, rbase) ==
    LET claimed == { GapPosition(gap[m], ubase) :
                       m \in { n \in 1..(k - 1) : gap[n].u # NoIdx } }
        free == (1..Len(user_gap)) \ claimed
        same == { i \in free : are_equivalent(user_gap[i].normalized,
                                              reference_gap[k].normalized) }
        near == { i \in free : is_mistake(user_gap[i].normalized,
                                          reference_gap[k].normalized) }
    IN  IF same # {}
        THEN Entry(user_gap[SetMin(same)].text, "correct",
                   ubase + SetMin(same) - 1, rbase + k - 1)
        ELSE IF near # {}
        THEN Entry(user_gap[SetMin(near)].text, "mistake",
                   ubase + SetMin(near) - 1, rbase + k - 1)
        ELSE Entry(reference_gap[k].text, "missing", NoIdx, rbase + k - 1)

\* C24. Gap-fill pairing rule: fill_field_gaps gives each reference gap
\* word, in order, exactly one entry: correct with the first not-yet-used
\* user gap word equivalent to it; else mistake with the first not-yet-used
\* user gap word that is a mistake of it; else missing with its own text.
\* No user gap word is claimed by two reference gap words.
C24_GapFillPairing ==
    [][AnchorStep
       => \A gap \in { GapEntries } :
            /\ Len(gap) >= Len(ReferenceGap)
            /\ \A k \in 1..Len(ReferenceGap) :
                  gap[k] = PairedEntry(UserGap, ReferenceGap, gap, k,
                                       user_idx, reference_idx)
            /\ \A k, m \in 1..Len(ReferenceGap) :
                  (k # m /\ gap[k].u # NoIdx) => gap[k].u # gap[m].u]_vars

\* Two reference gap words are mistakes of the same user gap word: the first
\* has claimed it and the second is missing.
C24_Witness ==
    /\ pc = "compare"
    /\ realign_calls = 1
    /\ Len(result) = 7
    /\ result[3].type = "mistake"
    /\ result[3].u = 1
    /\ result[3].r = 0
    /\ result[4].type = "missing"
    /\ result[4].r = 1
    /\ is_mistake(user_words[2].normalized, reference_words[2].normalized)
    /\ result[5].type = "wrong"
    /\ result[5].u = 0

\* C25. Gap-fill leftovers: after the entries of the reference gap words,
\* fill_field_gaps emits every user gap word that none of them claimed as
\* wrong, in the order of the user text and once; it appends
\* len(reference_gap) + (number of unclaimed user gap words) entries and
\* leaves the entries already in result as they are.
C25_GapFillLeftovers ==
    [][AnchorStep
       => \A gap \in { GapEntries } :
            \A unclaimed \in { (user_idx..(user_idx + Len(UserGap) - 1))
                                 \ { gap[k].u : k \in 1..Len(ReferenceGap) } } :
              /\ SubSeq(result', 1, Len(result)) = result
              /\ Len(gap) = Len(ReferenceGap) + Cardinality(unclaimed)
              /\ \A n \in (Len(ReferenceGap) + 1)..Len(gap) :
                    /\ gap[n].u \in unclaimed
                    /\ gap[n] = Entry(user_words[gap[n].u + 1].text, "wrong",
                                      gap[n].u, NoIdx)
                    /\ \A m \in (n + 1)..Len(gap) : gap[n].u < gap[m].u]_vars

\* A gap with one reference word and two user words that it did not claim:
\* after its missing entry the two are wrong, in the order of the user text.
C25_Witness ==
    /\ pc = "compare"
    /\ realign_calls = 1
    /\ Len(result) = 6
    /\ result[2].type = "missing"
    /\ result[2].r = 0
    /\ result[3].type = "wrong"
    /\ result[3].u = 0
    /\ result[4].type = "wrong"
    /\ result[4].u = 1
    /\ result[5].type = "correct"
    /\ result[5].u = 2

\* C26. Drain at termination: once the main loop has ended, compare appends
\* the remaining user words as wrong, in order, then the remaining reference
\* words as missing, in order, and nothing else; it returns with both
\* cursors at the ends of their sequences.
C26_Drain ==
    [][(pc = "compare" /\ ~InMainLoop)
       => IF user_idx < Len(user_words)
          THEN /\ result' = Append(result, Entry(user_words[user_idx + 1].text,
                                                 "wrong", user_idx, NoIdx))
               /\ user_idx' = user_idx + 1
               /\ reference_idx' = reference_idx
               /\ pc' = "compare"
          ELSE IF reference_idx < Len(reference_words)
          THEN /\ result' = Append(result, Entry(reference_words[reference_idx + 1].text,
                                                 "missing", NoIdx, reference_idx))
               /\ reference_idx' = reference_idx + 1
               /\ user_idx' = user_idx
               /\ pc' = "compare"
          ELSE /\ pc' = "returned"
               /\ result' = result
               /\ user_idx' = Len(user_words)
               /\ reference_idx' = Len(reference_words)]_vars

\* compare has returned without any realignment, after a direct match and
\* the drain of two remaining reference words.
C26_Witness ==
    /\ Returned
    /\ realign_calls = 0
    /\ flushes = 0
    /\ Len(result) >= 3
    /\ result[1].type = "correct"
    /\ result[Len(result) - 1].type = "missing"
    /\ result[Len(result) - 1].r = Len(reference_words) - 2
    /\ result[Len(result)].type = "missing"
    /\ result[Len(result)].r = Len(reference_words) - 1
    /\ user_idx = Len(user_words)
    /\ reference_idx = Len(reference_words)

\* C27. Termination: every iteration of the main loop increases user_idx,
\* by 1 on a direct match, a single-token hit or a single-step recovery and
\* by at least 2 on a duble anchor, never beyond len(user_words), and does
\* not decrease reference_idx; so the main loop runs at most len(user_words)
\* times and compare eventually returns, whatever the window size.
C27_Termination ==
    /\ [][InMainLoop
          => /\ IF AnchorStep
                THEN user_idx' >= user_idx + 2
                ELSE user_idx' = user_idx + 1
             /\ user_idx' <= Len(user_words)
             /\ reference_idx' >= reference_idx]_vars
    /\ <>Returned

\* With windows of one word, where no duble is ever compared, compare has
\* returned after a direct match and two single-step recoveries.
C27_Witness ==
    /\ Returned
    /\ window_size = 1
    /\ realign_calls >= 2
    /\ HasMatch(result)
    /\ Len(user_words) = LiveMaxLen

\* C28. User-side count: the diff that compare returns has as many entries
\* of kinds correct, mistake and wrong as the user text has tokens, and so
\* have the counts of get_detailed_comparison, however many realignments,
\* flushes and recoveries there were.
C28_UserSideCount ==
    /\ Returned
         => CountType(result, "correct") + CountType(result, "mistake")
              + CountType(result, "wrong") = Len(user_words)
    /\ pc = "scored"
         => stats.correct_words + stats.mistake_words + stats.wrong_words
              = Len(user_words)

\* A scored comparison with two realignments, two flushes, a wrong word and
\* more than one match.
C28_Witness ==
    /\ pc = "scored"
    /\ realign_calls >= 2
    /\ flushes >= 2
    /\ stats.wrong_words >= 1
    /\ stats.correct_words + stats.mistake_words >= 2

\* C29. Completeness of the duble search: when some duble of the remaining
\* user words is equivalent to the two reference words at offsets k and
\* k + 1 from the reference cursor, with k + 1 < max_search, realignment
\* finds a duble anchor (the user cursor goes at least two words on), also
\* when the two reference words lie in two consecutive windows.
C29_DubleSearchComplete ==
    [][(/\ NeedsRealign
        /\ \E i \in user_idx..(Len(user_words) - 2) :
             \E k \in 0..(Len(reference_words) - reference_idx - 2) :
               /\ k + 1 < max_search
               /\ are_dubles_equivalent(
                      <<user_words[i + 1], user_words[i + 2]>>,
                      <<reference_words[reference_idx + k + 1],
                        reference_words[reference_idx + k + 2]>>))
       => user_idx' >= user_idx + 2]_vars

\* The user text is P.X.S and the reference P.S with P of p words and X of
\* x words, S not empty, all words of the user text being pairwise
\* dissimilar.
InsertedClause(p, x) ==
    /\ x >= 1
    /\ Len(user_words) > p + x
    /\ Len(reference_words) = Len(user_words) - x
    /\ SubSeq(user_words, 1, p) = SubSeq(reference_words, 1, p)
    /\ SubSeq(user_words, p + x + 1, Len(user_words))
         = SubSeq(reference_words, p + 1, Len(reference_words))
    /\ \A i, j \in 1..Len(user_words) :
          i # j => Dissimilar(user_words[i], user_words[j])

\* C30. Inserted clause: for a user text P.X.S and a reference P.S of
\* pairwise dissimilar words, P possibly empty, compare returns the words of
\* P as correct, then those of X as wrong, then those of S as correct, and
\* no missing entry.
C30_InsertedClause ==
    \A p \in 0..Len(user_words) :
      \A x \in 1..Len(user_words) :
        (Returned /\ InsertedClause(p, x)) =>
            Visible(result)
              = AllAs(SubSeq(user_words, 1, p), "correct")
                \o AllAs(SubSeq(user_words, p + 1, p + x), "wrong")
                \o AllAs(SubSeq(user_words, p + x + 1, Len(user_words)), "correct")

====
